---------------------------- MODULE Spec2Model ----------------------------
(***************************************************************************)
(* Model of src/datacls.py: the datacls decorator (_make_datacls), the     *)
(* generated __init__, asdict, _eq, _repr and the frozen __setattr__.      *)
(*                                                                         *)
(* One class is declared (its annotations, its class attributes, whether   *)
(* it has __post_init__), then augmented, instantiated and used.           *)
(*                                                                         *)
(* Python dicts are ordered: every dict is a sequence of [k, v] pairs.     *)
(* Python source text assembled by the code is kept in pieces: a parameter *)
(* is its name plus the text of its default, a body is its lines; exec     *)
(* (_create_fn) evaluates the default texts in the module globals.         *)
(***************************************************************************)
EXTENDS Integers, Sequences, FiniteSets, TLC

VARIABLES
    cls,        \* the class: its declaration and what augmentation installed
    x,          \* the instance of the class, once constructed
    ret,        \* the last call: its arguments, its result or its exception
    applied,    \* the switches and the outcome of the last augmentation
    last_write  \* history: the last assignment x.name = value that succeeded

vars == <<cls, x, ret, applied, last_write>>

(* ------------------------------ bounds -------------------------------- *)

\* Largest number of annotated fields of the declared class.
MaxFields == 2

(* ------------------------------ values -------------------------------- *)

IntV(n) == [k |-> "int", i |-> n, s |-> ""]

StrV(t) == [k |-> "str", i |-> 0, s |-> t]

NoneV == [k |-> "none", i |-> 0, s |-> ""]

\* The literal the code uses to mean "no default".
NotDefaultValue == StrV("_NotDefaultValue")

\* Field names, in declaration order; a class declares a prefix of them.
FieldOrder == <<"a", "b", "c", "d">>

NameSet == {FieldOrder[i] : i \in 1..MaxFields}

\* Defaults a class body may give a field.
DefaultVals == {IntV(1), StrV("1"), StrV("_NotDefaultValue"),
                StrV("abc"), StrV("xyz"), StrV("")}

\* Values passed to constructors and assigned to fields.
ArgVals == {IntV(2), IntV(3)}

(* ------------------------------ dicts --------------------------------- *)

Keys(d) == [j \in 1..Len(d) |-> d[j].k]

KeySet(d) == {d[j].k : j \in 1..Len(d)}

Has(d, key) == \E j \in 1..Len(d) : d[j].k = key

Get(d, key) == d[CHOOSE j \in 1..Len(d) : d[j].k = key].v

\* d[key] = val : an existing key keeps its position, a new one is appended.
Put(d, key, val) ==
    IF Has(d, key)
    THEN [j \in 1..Len(d) |-> IF d[j].k = key THEN [k |-> key, v |-> val] ELSE d[j]]
    ELSE Append(d, [k |-> key, v |-> val])

\* Python's dict == : same keys, equal value under each key; order is not compared.
DictEq(d1, d2) ==
    /\ Len(d1) = Len(d2)
    /\ \A j \in 1..Len(d1) : Has(d2, d1[j].k) /\ Get(d2, d1[j].k) = d1[j].v

(* ----------------------- text and evaluation -------------------------- *)

\* str(v), as str.format renders a value.
Str(v) ==
    CASE v.k = "int" -> ToString(v.i)
      [] v.k = "str" -> v.s
      [] OTHER -> "None"

\* Decimal literals the evaluation recognises.
Literals == 0..9

\* Texts that are identifiers.
Identifiers == {"_NotDefaultValue", "abc", "xyz", "a", "b", "c", "d"}

\* The globals of the module in which the class is declared.
cls_module_globals == <<[k |-> "abc", v |-> IntV(7)]>>

\* Evaluation of an expression text in the module globals.
Eval(text) ==
    IF \E n \in Literals : ToString(n) = text
    THEN [exc |-> "none", val |-> IntV(CHOOSE n \in Literals : ToString(n) = text)]
    ELSE IF text = "None"
    THEN [exc |-> "none", val |-> NoneV]
    ELSE IF text \in Identifiers
    THEN IF Has(cls_module_globals, text)
         THEN [exc |-> "none", val |-> Get(cls_module_globals, text)]
         ELSE [exc |-> "NameError", val |-> NoneV]
    ELSE [exc |-> "SyntaxError", val |-> NoneV]

(* --------------------------- the class -------------------------------- *)

\* A function that was never generated.
NoFn == [defined |-> FALSE, params |-> <<>>, body |-> <<>>]

\* A class as its body declares it, before augmentation: the annotations
\* (name -> type hint), the class attributes assigned in the body (the
\* defaults) and whether it defines __post_init__.
DeclaredClass(n, attrs, hook) ==
    [name        |-> "T",
     annotations |-> [j \in 1..n |-> [k |-> FieldOrder[j], v |-> "hint"]],
     attrs       |-> attrs,
     post_init   |-> hook,
     has_fields  |-> FALSE,
     fields_reg  |-> <<>>,
     fields_prop |-> FALSE,
     init        |-> NoFn,
     repr        |-> FALSE,
     eq          |-> FALSE,
     setattr     |-> FALSE]

\* Class bodies over the first n field names: each field has no class
\* attribute or one of DefaultVals.
RECURSIVE AttrChoices(_)
AttrChoices(n) ==
    IF n = 0 THEN {<<>>}
    ELSE LET rest == AttrChoices(n - 1)
         IN  rest \cup {Append(pd[1], [k |-> FieldOrder[n], v |-> pd[2]]) :
                              pd \in rest \X DefaultVals}

\* getattr(cls, name, default) on the class.
ClsGetAttr(c, name, default) ==
    IF Has(c.attrs, name) THEN Get(c.attrs, name) ELSE default

(* --------------------------- _read_annotations ------------------------ *)

_read_annotations(c) ==
    [j \in 1..Len(c.annotations) |->
        [k |-> c.annotations[j].k,
         v |-> [type_hint     |-> c.annotations[j].v,
                default_value |-> ClsGetAttr(c, c.annotations[j].k, StrV("_NotDefaultValue"))]]]

(* ------------------------- _create_func_signature --------------------- *)

\* One parameter of the signature text: "name" or "name = text".
ArgPiece(arg) ==
    IF arg.v.default_value = StrV("_NotDefaultValue")
    THEN [name |-> arg.k, dflt |-> <<>>]
    ELSE [name |-> arg.k, dflt |-> <<Str(arg.v.default_value)>>]

MapPieces(args) == [j \in 1..Len(args) |-> ArgPiece(args[j])]

_create_func_signature(func_name, args) ==
    LET pieces == MapPieces(args)
        no_default_value   == SelectSeq(pieces, LAMBDA p : p.dflt = <<>>)
        with_default_value == SelectSeq(pieces, LAMBDA p : p.dflt # <<>>)
    IN  [func_name |-> func_name, params |-> no_default_value \o with_default_value]

(* ------------------------------ _create_fn ---------------------------- *)

\* The compiler's rule: no parameter without a default after one with a default.
OrderOk(params) ==
    \A i, j \in 1..Len(params) :
        (i < j /\ params[i].dflt # <<>>) => params[j].dflt # <<>>

DefaultEvals(params) ==
    [j \in 1..Len(params) |->
        IF params[j].dflt = <<>> THEN [exc |-> "none", val |-> NoneV]
        ELSE Eval(params[j].dflt[1])]

\* exec(signature + body, globals): the text is compiled (SyntaxError for a
\* malformed default, a misordered parameter list or a def with no body),
\* then the def statement runs and evaluates the defaults (NameError).
_create_fn(func_name, signature, body) ==
    LET ev == DefaultEvals(signature.params)
    IN  IF \/ Len(body) = 0
           \/ ~OrderOk(signature.params)
           \/ \E j \in 1..Len(ev) : ev[j].exc = "SyntaxError"
        THEN [exc |-> "SyntaxError", fn |-> NoFn]
        ELSE IF \E j \in 1..Len(ev) : ev[j].exc = "NameError"
        THEN [exc |-> "NameError", fn |-> NoFn]
        ELSE [exc |-> "none",
              fn  |-> [defined |-> TRUE,
                       params  |-> [j \in 1..Len(ev) |->
                                      [name |-> signature.params[j].name,
                                       dflt |-> IF signature.params[j].dflt = <<>>
                                                THEN <<>> ELSE <<ev[j].val>>]],
                       body    |-> body]]

(* -------------------------- _create_and_add_init ---------------------- *)

\* A body assigning with self.name = name, through the class's __setattr__.
InitBody_plain_assignment(fields, post_init) ==
    [j \in 1..Len(fields) |->
        [stmt |-> "self.attr =", target |-> fields[j].k, source |-> fields[j].k]]
    \o (IF post_init
        THEN <<[stmt |-> "self.__post_init__", target |-> "", source |-> ""]>>
        ELSE <<>>)

\* The lines of the generated body, one assignment per field of _fields.
InitBody(fields, post_init) ==
    [j \in 1..Len(fields) |->
        [stmt |-> "object.__setattr__", target |-> fields[j].k, source |-> fields[j].k]]
    \o (IF post_init
        THEN <<[stmt |-> "self.__post_init__", target |-> "", source |-> ""]>>
        ELSE <<>>)

_create_and_add_init(post_init, c) ==
    LET signature == _create_func_signature("__init__", c.fields_reg)
        init_body == InitBody(c.fields_reg, post_init)
        made      == _create_fn("__init__", signature, init_body)
    IN  IF made.exc # "none"
        THEN [exc |-> made.exc, cls |-> c]
        ELSE [exc |-> "none", cls |-> [c EXCEPT !.init = made.fn]]

(* ------------------------------ _make_datacls ------------------------- *)

Flags == [init : BOOLEAN, repr : BOOLEAN, eq : BOOLEAN, frozen : BOOLEAN]

_create_and_add_repr(c) == [c EXCEPT !.repr = TRUE]

_create_and_add_eq(c) == [c EXCEPT !.eq = TRUE]

_make_frozen(c) == [c EXCEPT !.setattr = TRUE]

\* _make_datacls removing the defaults from the class once they are recorded.
_make_datacls_pops_defaults(c, f) ==
    LET c1 == [c EXCEPT !.has_fields = TRUE, !.fields_reg = _read_annotations(c)]
        c2 == [c1 EXCEPT !.fields_prop = TRUE, !.attrs = <<>>]
        r3 == IF f.init THEN _create_and_add_init(c2.post_init, c2)
                        ELSE [exc |-> "none", cls |-> c2]
        c4 == IF f.repr THEN _create_and_add_repr(r3.cls) ELSE r3.cls
        c5 == IF f.eq THEN _create_and_add_eq(c4) ELSE c4
        c6 == IF f.frozen THEN _make_frozen(c5) ELSE c5
    IN  IF r3.exc # "none" THEN r3 ELSE [exc |-> "none", cls |-> c6]

_make_datacls(c, f) ==
    LET c1 == [c EXCEPT !.has_fields = TRUE, !.fields_reg = _read_annotations(c)]
        c2 == [c1 EXCEPT !.fields_prop = TRUE]
        r3 == IF f.init THEN _create_and_add_init(c2.post_init, c2)
                        ELSE [exc |-> "none", cls |-> c2]
        c4 == IF f.repr THEN _create_and_add_repr(r3.cls) ELSE r3.cls
        c5 == IF f.eq THEN _create_and_add_eq(c4) ELSE c4
        c6 == IF f.frozen THEN _make_frozen(c5) ELSE c5
    IN  IF r3.exc # "none" THEN r3 ELSE [exc |-> "none", cls |-> c6]

(* ------------------------------ objects ------------------------------- *)

\* What asdict and _eq see of an object: whether it has a fields attribute,
\* the keys of that registry, its instance attributes and the attributes of
\* its class.
Obj(what, has_fields, fields, attrs, clsattrs) ==
    [what |-> what, has_fields |-> has_fields, fields |-> fields,
     attrs |-> attrs, clsattrs |-> clsattrs]

\* The instance x of the class.
Self == Obj("datacls", cls.fields_prop, Keys(cls.fields_reg), x.attrs, cls.attrs)

\* Objects without a fields attribute: an int, None, an instance of a plain class.
PlainObjs == {Obj(w, FALSE, <<>>, <<>>, <<>>) : w \in {"int", "None", "object"}}

\* Sequences without repetition over NameSet, up to MaxFields long.
FieldSeqs ==
    {q \in UNION {[1..m -> NameSet] : m \in 0..MaxFields} :
        \A i, j \in 1..Len(q) : i # j => q[i] # q[j]}

\* Instances of other augmented types, built by their generated constructors.
ForeignObjs ==
    UNION {{Obj("datacls", TRUE, q, [j \in 1..Len(q) |-> [k |-> q[j], v |-> vals[j]]], <<>>) :
               vals \in [1..Len(q) -> ArgVals]} : q \in FieldSeqs}

\* getattr(obj, name): the instance attributes, then the class attributes.
GetAttr(obj, name) ==
    IF Has(obj.attrs, name) THEN [exc |-> "none", val |-> Get(obj.attrs, name)]
    ELSE IF Has(obj.clsattrs, name) THEN [exc |-> "none", val |-> Get(obj.clsattrs, name)]
    ELSE [exc |-> "AttributeError", val |-> NoneV]

(* ------------------------------- asdict ------------------------------- *)

\* asdict reading the attribute from the class first: the declared default
\* wins over the value held by the instance.
asdict_class_first(obj) ==
    IF ~obj.has_fields
    THEN [exc |-> "AttributeError", val |-> <<>>]
    ELSE IF \E j \in 1..Len(obj.fields) : GetAttr(obj, obj.fields[j]).exc # "none"
    THEN [exc |-> "AttributeError", val |-> <<>>]
    ELSE [exc |-> "none",
          val |-> [j \in 1..Len(obj.fields) |->
                      [k |-> obj.fields[j],
                       v |-> IF Has(obj.clsattrs, obj.fields[j])
                             THEN Get(obj.clsattrs, obj.fields[j])
                             ELSE GetAttr(obj, obj.fields[j]).val]]]

asdict(obj) ==
    IF ~obj.has_fields
    THEN [exc |-> "AttributeError", val |-> <<>>]
    ELSE IF \E j \in 1..Len(obj.fields) : GetAttr(obj, obj.fields[j]).exc # "none"
    THEN [exc |-> "AttributeError", val |-> <<>>]
    ELSE [exc |-> "none",
          val |-> [j \in 1..Len(obj.fields) |->
                      [k |-> obj.fields[j], v |-> GetAttr(obj, obj.fields[j]).val]]]

(* -------------------------------- _repr ------------------------------- *)

\* The rendering, in pieces: the class name and one "field = value" per field.
_repr(obj) ==
    IF \E j \in 1..Len(obj.fields) : GetAttr(obj, obj.fields[j]).exc # "none"
    THEN [exc |-> "AttributeError", val |-> <<>>]
    ELSE [exc |-> "none",
          val |-> [j \in 1..Len(obj.fields) |->
                      [k |-> obj.fields[j], v |-> Str(GetAttr(obj, obj.fields[j]).val)]]]

(* --------------------------------- _eq -------------------------------- *)

\* _eq comparing the values position by position, without their keys.
_eq_values_only(self, other) ==
    LET l == asdict(self)
        r == asdict(other)
    IN  IF l.exc # "none" THEN [exc |-> l.exc, val |-> FALSE]
        ELSE IF r.exc # "none" THEN [exc |-> r.exc, val |-> FALSE]
        ELSE [exc |-> "none",
              val |-> /\ Len(l.val) = Len(r.val)
                      /\ \A j \in 1..Len(l.val) : l.val[j].v = r.val[j].v]

_eq(self, other) ==
    LET l == asdict(self)
        r == asdict(other)
    IN  IF l.exc # "none" THEN [exc |-> l.exc, val |-> FALSE]
        ELSE IF r.exc # "none" THEN [exc |-> r.exc, val |-> FALSE]
        ELSE [exc |-> "none", val |-> DictEq(l.val, r.val)]

(* ------------------------------ _setattr ------------------------------ *)

\* object.__setattr__(self, name, value)
ObjectSetAttr(attrs, name, value) == [exc |-> "none", attrs |-> Put(attrs, name, value)]

\* The class's __setattr__ once _make_frozen installed it.
_setattr(attrs, name, value) == [exc |-> "FrozenError", attrs |-> attrs]

\* self.name = value : the __setattr__ found on the class.
SetAttrOn(c, attrs, name, value) ==
    IF c.setattr THEN _setattr(attrs, name, value) ELSE ObjectSetAttr(attrs, name, value)

(* ----------------------- the generated __init__ ----------------------- *)

\* Calls of the constructor: positional values and keyword values.
RECURSIVE KwChoices(_)
KwChoices(n) ==
    IF n = 0 THEN {<<>>}
    ELSE LET rest == KwChoices(n - 1)
         IN  rest \cup {Append(pv[1], [k |-> FieldOrder[n], v |-> pv[2]]) :
                              pv \in rest \X ArgVals}

\* At most n arguments in all: a call with more never binds.
Calls(n) ==
    {call \in {[pos |-> p, kw |-> w] :
                  p \in UNION {[1..m -> ArgVals] : m \in 0..n}, w \in KwChoices(n)} :
        Len(call.pos) + Len(call.kw) <= n}

\* Argument binding of a call to the parameters of fn.
Bind(fn, call) ==
    LET P  == fn.params
        np == Len(call.pos)
    IN  IF \/ np > Len(P)
           \/ \E j \in 1..Len(call.kw) : \A i \in 1..Len(P) : P[i].name # call.kw[j].k
           \/ \E i \in 1..Len(P) : i <= np /\ Has(call.kw, P[i].name)
           \/ \E i \in 1..Len(P) : i > np /\ ~Has(call.kw, P[i].name) /\ P[i].dflt = <<>>
        THEN [exc |-> "TypeError", locals |-> <<>>]
        ELSE [exc |-> "none",
              locals |-> [i \in 1..Len(P) |->
                  [k |-> P[i].name,
                   v |-> IF i <= np THEN call.pos[i]
                         ELSE IF Has(call.kw, P[i].name) THEN Get(call.kw, P[i].name)
                         ELSE P[i].dflt[1]]]]

\* One line of the body, run on the state [exc, attrs, events].
RunLine(c, line, locals, st) ==
    IF st.exc # "none" THEN st
    ELSE IF line.stmt = "self.__post_init__"
    THEN [st EXCEPT !.events = Append(@, [ev |-> line.stmt, field |-> "",
                                          populated |-> Keys(st.attrs)])]
    ELSE LET w == IF line.stmt = "object.__setattr__"
                  THEN ObjectSetAttr(st.attrs, line.target, Get(locals, line.source))
                  ELSE SetAttrOn(c, st.attrs, line.target, Get(locals, line.source))
         IN  [exc    |-> w.exc,
              attrs  |-> w.attrs,
              events |-> IF w.exc # "none" THEN st.events
                         ELSE Append(st.events, [ev |-> line.stmt, field |-> line.target,
                                                 populated |-> Keys(w.attrs)])]

RECURSIVE RunBody(_, _, _, _, _)
RunBody(c, body, j, locals, st) ==
    IF j > Len(body) THEN st
    ELSE RunBody(c, body, j + 1, locals, RunLine(c, body[j], locals, st))

\* cls(*pos, **kw) through the generated __init__, on a fresh instance.
CallInit(c, call) ==
    LET b == Bind(c.init, call)
    IN  IF b.exc # "none" THEN [exc |-> b.exc, attrs |-> <<>>, events |-> <<>>]
        ELSE RunBody(c, c.init.body, 1, b.locals, [exc |-> "none", attrs |-> <<>>, events |-> <<>>])

(* ------------------------------ the machine --------------------------- *)

NoFlags == [init |-> FALSE, repr |-> FALSE, eq |-> FALSE, frozen |-> FALSE]

\* The declared class, not yet augmented; no instance; nothing called yet.
Init ==
    /\ cls \in {DeclaredClass(n, attrs, hook) :
                   n \in 0..MaxFields, attrs \in AttrChoices(MaxFields), hook \in BOOLEAN}
    /\ \A j \in 1..Len(cls.attrs) : Has(cls.annotations, cls.attrs[j].k)
    /\ x = [alive |-> FALSE, attrs |-> <<>>]
    /\ ret = [op |-> "none", exc |-> "none", in |-> <<>>, out |-> <<>>]
    /\ applied = [done |-> FALSE, flags |-> NoFlags, exc |-> "none"]
    /\ last_write = [done |-> FALSE, field |-> "", value |-> NoneV]

\* datacls(cls, init=, repr=, eq=, frozen=).  The class is decorated once
\* and may be decorated again with the same switches.
Augment(f) ==
    /\ applied.done => f = applied.flags
    /\ LET r == _make_datacls(cls, f)
       IN  /\ cls' = r.cls
           /\ ret' = [op |-> "augment", exc |-> r.exc, in |-> <<>>,
                      out |-> IF r.exc = "none" THEN r.cls.name ELSE ""]
           /\ applied' = [done |-> TRUE, flags |-> f, exc |-> r.exc]
    /\ UNCHANGED <<x, last_write>>

\* x = cls(...) with the generated constructor; x is bound once, by the
\* first call that returns.
Construct(call) ==
    /\ cls.init.defined
    /\ ~x.alive
    /\ LET r == CallInit(cls, call)
       IN  /\ x' = IF r.exc = "none" THEN [alive |-> TRUE, attrs |-> r.attrs] ELSE x
           /\ ret' = [op |-> "init", exc |-> r.exc, in |-> call,
                      out |-> [attrs |-> r.attrs, events |-> r.events]]
    /\ UNCHANGED <<cls, applied, last_write>>

\* x.name = value
Assign(name, value) ==
    /\ x.alive
    /\ LET r == SetAttrOn(cls, x.attrs, name, value)
       IN  /\ x' = [x EXCEPT !.attrs = r.attrs]
           /\ ret' = [op |-> "setattr", exc |-> r.exc,
                      in |-> [field |-> name, value |-> value], out |-> <<>>]
           /\ last_write' = IF r.exc = "none"
                            THEN [done |-> TRUE, field |-> name, value |-> value]
                            ELSE last_write
    /\ UNCHANGED <<cls, applied>>

\* asdict(x)
AsDict ==
    /\ x.alive
    /\ LET r == asdict(Self)
       IN  ret' = [op |-> "asdict", exc |-> r.exc, in |-> <<>>, out |-> r.val]
    /\ UNCHANGED <<cls, x, applied, last_write>>

\* x == other, with the generated __eq__.
Compare(other) ==
    /\ x.alive
    /\ cls.eq
    /\ LET r == _eq(Self, other)
       IN  ret' = [op |-> "eq", exc |-> r.exc, in |-> other.what, out |-> r.val]
    /\ UNCHANGED <<cls, x, applied, last_write>>

\* repr(x), with the generated __repr__.
Render ==
    /\ x.alive
    /\ cls.repr
    /\ LET r == _repr(Self)
       IN  ret' = [op |-> "repr", exc |-> r.exc, in |-> <<>>, out |-> r.val]
    /\ UNCHANGED <<cls, x, applied, last_write>>

\* What x may be compared with.
Others == PlainObjs \cup ForeignObjs \cup {Self}

Next ==
    \/ \E f \in Flags : Augment(f)
    \/ \E call \in Calls(Len(cls.annotations)) : Construct(call)
    \/ \E name \in KeySet(cls.annotations), value \in ArgVals : Assign(name, value)
    \/ AsDict
    \/ \E other \in Others : Compare(other)
    \/ Render

Spec == Init /\ [][Next]_vars

(* ---------------------- the declaration, as written -------------------- *)

\* The declared field names, in declaration order.
DeclaredFields == Keys(cls.annotations)

\* The class body gives the field a default.
HasDeclaredDefault(name) == Has(cls.attrs, name)

DeclaredDefault(name) == Get(cls.attrs, name)

\* Fields without a declared default, then fields with one, each in declaration order.
StablePartition ==
    SelectSeq(DeclaredFields, LAMBDA n : ~HasDeclaredDefault(n))
    \o SelectSeq(DeclaredFields, LAMBDA n : HasDeclaredDefault(n))

ParamNames(fn) == [j \in 1..Len(fn.params) |-> fn.params[j].name]

\* The last augmentation asked for a constructor.
InitRequested == applied.done /\ applied.flags.init

(* -------------------------------- C1 ---------------------------------- *)

\* The class of the worked example: a with default 1, then b without default.
IsExampleClass ==
    /\ DeclaredFields = <<"a", "b">>
    /\ cls.attrs = <<[k |-> "a", v |-> IntV(1)]>>

\* C1: the parameters of the generated constructor are the stable partition
\* of the declared fields (no declared default first, then declared default,
\* each in declaration order); and for a = 1, b the augmentation succeeds
\* and Type(b=2) gives a = 1, b = 2.
C1_ParamsAreStablePartition ==
    /\ cls.init.defined => ParamNames(cls.init) = StablePartition
    /\ (IsExampleClass /\ InitRequested) => (applied.exc = "none" /\ cls.init.defined)
    /\ (IsExampleClass /\ ret.op = "init"
          /\ ret.in = [pos |-> <<>>, kw |-> <<[k |-> "b", v |-> IntV(2)]>>])
       => (ret.exc = "none" /\ DictEq(x.attrs, <<[k |-> "a", v |-> IntV(1)],
                                                [k |-> "b", v |-> IntV(2)]>>))

(* -------------------------------- C8 ---------------------------------- *)

\* C8: a field is recorded with the no-default marker, and is a required
\* parameter of the constructor, exactly when the class declared no default
\* for it, whatever the declared default value is.
C8_SentinelDistinct ==
    /\ cls.has_fields =>
         \A j \in 1..Len(cls.fields_reg) :
            (cls.fields_reg[j].v.default_value = NotDefaultValue)
               <=> ~HasDeclaredDefault(cls.fields_reg[j].k)
    /\ cls.init.defined =>
         \A j \in 1..Len(cls.init.params) :
            (cls.init.params[j].dflt = <<>>) <=> ~HasDeclaredDefault(cls.init.params[j].name)

(* -------------------------------- C9 ---------------------------------- *)

\* The text of d evaluates back to a value equal to d.
RoundTrips(d) == Eval(Str(d)).exc = "none" /\ Eval(Str(d)).val = d

ParamOf(fn, name) == fn.params[CHOOSE j \in 1..Len(fn.params) : fn.params[j].name = name]

\* The call leaves the field out.
Omits(call, fn, name) ==
    /\ ~Has(call.kw, name)
    /\ \A j \in 1..Len(call.pos) : fn.params[j].name # name

\* C9: for a field declared with default d, either the text of d round-trips
\* and a construction that omits the field sets it to d, or the augmentation
\* fails; no default is replaced by another value.
C9_DefaultRoundTripsOrFails ==
    /\ (InitRequested /\ applied.exc = "none") =>
         \A j \in 1..Len(DeclaredFields) :
            HasDeclaredDefault(DeclaredFields[j]) =>
               /\ RoundTrips(DeclaredDefault(DeclaredFields[j]))
               /\ ParamOf(cls.init, DeclaredFields[j]).dflt
                     = <<DeclaredDefault(DeclaredFields[j])>>
    /\ (ret.op = "init" /\ ret.exc = "none") =>
         \A j \in 1..Len(DeclaredFields) :
            (HasDeclaredDefault(DeclaredFields[j]) /\ Omits(ret.in, cls.init, DeclaredFields[j]))
               => Get(ret.out.attrs, DeclaredFields[j]) = DeclaredDefault(DeclaredFields[j])

(* -------------------------------- C5 ---------------------------------- *)

\* C5: comparing an instance with a value that has no fields view (an int,
\* None, an instance of a plain class) gives "not equal" and raises nothing.
C5_NoFieldsViewIsUnequal ==
    (ret.op = "eq" /\ ret.in \in {"int", "None", "object"})
       => (ret.exc = "none" /\ ret.out = FALSE)

(* -------------------------------- C7 ---------------------------------- *)

IsAssignment(line) == line.stmt # "self.__post_init__"

\* C7: a class with no fields is augmented successfully; its initializer
\* takes only self and assigns nothing, and still calls the hook if the
\* class has one.
C7_ZeroFieldsInit ==
    (InitRequested /\ Len(DeclaredFields) = 0) =>
       /\ applied.exc = "none"
       /\ cls.init.defined
       /\ cls.init.params = <<>>
       /\ \A j \in 1..Len(cls.init.body) : ~IsAssignment(cls.init.body[j])
       /\ cls.post_init <=> (\E j \in 1..Len(cls.init.body) :
                                 cls.init.body[j].stmt = "self.__post_init__")

(* -------------------------------- C2 ---------------------------------- *)

\* A keyword call that supplies every field the class declares no default for.
SuppliesRequired(call) ==
    /\ call.pos = <<>>
    /\ \A j \in 1..Len(DeclaredFields) :
          HasDeclaredDefault(DeclaredFields[j]) \/ Has(call.kw, DeclaredFields[j])

\* C2: on a frozen type with a generated constructor, construction succeeds
\* and sets every field to the supplied argument or to its declared default;
\* every later assignment raises FrozenError and changes no field.
C2_FrozenConstructsThenRejects ==
    [][(cls.setattr /\ cls.init.defined) =>
         /\ (ret'.op = "init" /\ SuppliesRequired(ret'.in)) =>
               /\ ret'.exc = "none"
               /\ x'.alive
               /\ \A j \in 1..Len(DeclaredFields) :
                     /\ Has(x'.attrs, DeclaredFields[j])
                     /\ Get(x'.attrs, DeclaredFields[j])
                           = IF Has(ret'.in.kw, DeclaredFields[j])
                             THEN Get(ret'.in.kw, DeclaredFields[j])
                             ELSE DeclaredDefault(DeclaredFields[j])
         /\ ret'.op = "setattr" => (ret'.exc = "FrozenError" /\ x' = x)]_vars

\* The part of C2 that does not rest on the defaults: on a frozen type every
\* assignment raises FrozenError and changes nothing, and when every declared
\* default round-trips the construction sets each field as C2 says.
FrozenHoldsForRoundTrippingDefaults ==
    [][(cls.setattr /\ cls.init.defined) =>
         /\ (/\ ret'.op = "init"
             /\ SuppliesRequired(ret'.in)
             /\ \A j \in 1..Len(cls.attrs) :
                   Eval(Str(cls.attrs[j].v)).exc = "none"
                   /\ Eval(Str(cls.attrs[j].v)).val = cls.attrs[j].v) =>
               /\ ret'.exc = "none"
               /\ \A j \in 1..Len(DeclaredFields) :
                     Get(x'.attrs, DeclaredFields[j])
                        = IF Has(ret'.in.kw, DeclaredFields[j])
                          THEN Get(ret'.in.kw, DeclaredFields[j])
                          ELSE DeclaredDefault(DeclaredFields[j])
         /\ ret'.op = "setattr" => (ret'.exc = "FrozenError" /\ x' = x)]_vars

(* -------------------------------- C3 ---------------------------------- *)

\* C3: asdict(x) has the registry's field names as keys, in declaration
\* order, each with the value the instance holds; after assignments to the
\* fields of a mutable type it gives the value assigned last, not the default.
C3_AsDictLiveValues ==
    ret.op = "asdict" =>
       /\ ret.exc = "none"
       /\ Keys(ret.out) = Keys(cls.fields_reg)
       /\ Keys(ret.out) = DeclaredFields
       /\ \A j \in 1..Len(ret.out) :
             /\ Has(x.attrs, ret.out[j].k)
             /\ ret.out[j].v = Get(x.attrs, ret.out[j].k)
       /\ last_write.done => Get(ret.out, last_write.field) = last_write.value

\* asdict ran after an assignment gave a field declared with default 1 another value.
C3_Witness ==
    /\ ret.op = "asdict"
    /\ ret.exc = "none"
    /\ last_write.done
    /\ HasDeclaredDefault(last_write.field)
    /\ DeclaredDefault(last_write.field) = IntV(1)
    /\ last_write.value = IntV(3)
    /\ Len(ret.out) = 2

(* -------------------------------- C4 ---------------------------------- *)

\* Same key set, and equal values under every key.
SameView(keys1, attrs1, keys2, attrs2) ==
    /\ {keys1[j] : j \in 1..Len(keys1)} = {keys2[j] : j \in 1..Len(keys2)}
    /\ \A j \in 1..Len(keys1) : Get(attrs1, keys1[j]) = Get(attrs2, keys1[j])

\* C4: x == y, for instances of types augmented with eq, is true exactly
\* when both have the same field names and equal values under every name.
C4_EqIffSameView ==
    [][ret'.op = "eq" =>
          \A o \in ForeignObjs \cup {Self} :
             Compare(o) =>
                /\ ret'.exc = "none"
                /\ ret'.out = SameView(DeclaredFields, x.attrs, o.fields, o.attrs)]_vars

\* Two instances with the same two fields came out equal.
C4_Witness ==
    /\ ret.op = "eq"
    /\ ret.in = "datacls"
    /\ ret.exc = "none"
    /\ ret.out = TRUE
    /\ Len(DeclaredFields) = 2

(* -------------------------------- C6 ---------------------------------- *)

\* C6: augmenting an augmented class again with the same switches returns
\* the same class and leaves the registry, the constructor and the installed
\* behaviours as they were; a failing augmentation fails again the same way.
C6_AugmentIdempotent ==
    [][(applied.done /\ ret'.op = "augment") =>
          \A f \in Flags :
             Augment(f) =>
                /\ cls' = cls
                /\ ret'.exc = applied.exc
                /\ ret'.exc = "none" => ret'.out = cls.name]_vars

\* A class with a declared default was augmented again after an instance was built.
C6_Witness ==
    /\ applied.done
    /\ ret.op = "augment"
    /\ ret.exc = "none"
    /\ x.alive
    /\ Len(cls.attrs) > 0

(* -------------------------------- C10 --------------------------------- *)

\* C10: a run of the generated constructor assigns every declared field once,
\* in declaration order, with object.__setattr__, and then, if the class has
\* __post_init__, calls it once, last, with every field populated; on frozen
\* and mutable types alike.
C10_InitAssignsThenHook ==
    ret.op = "init" =>
       /\ ret.exc \in {"none", "TypeError"}
       /\ ret.exc = "TypeError" => ret.out.events = <<>>
       /\ ret.exc = "none" =>
            /\ Len(ret.out.events) = Len(DeclaredFields) + (IF cls.post_init THEN 1 ELSE 0)
            /\ \A j \in 1..Len(DeclaredFields) :
                  /\ ret.out.events[j].ev = "object.__setattr__"
                  /\ ret.out.events[j].field = DeclaredFields[j]
            /\ cls.post_init =>
                  /\ ret.out.events[Len(ret.out.events)].ev = "self.__post_init__"
                  /\ ret.out.events[Len(ret.out.events)].populated = DeclaredFields

\* A frozen class with a hook, whose parameters are reordered, was instantiated.
C10_Witness ==
    /\ ret.op = "init"
    /\ ret.exc = "none"
    /\ cls.post_init
    /\ cls.setattr
    /\ ParamNames(cls.init) # DeclaredFields

=============================================================================
